---- MODULE Spec2Model ----
(***************************************************************************)
(* GloboCorp GPT Genie: the message lifecycle of the two chat controllers  *)
(* of the repository, GlobocorpGenie (genie.js) and GenieChat (app.js).    *)
(*                                                                         *)
(* Spec      the GlobocorpGenie controller: submissions, the pending reply *)
(*           timer, the bounded history, localStorage persistence and page *)
(*           reloads.                                                      *)
(* SpecChat  the GenieChat controller: submissions, its three timer waits  *)
(*           per submission with the calls after them returning or         *)
(*           throwing, and clearChat.                                      *)
(* SpecSnapshot  GenieChat with a caller of getState that edits the        *)
(*           messages of the snapshot it holds.                            *)
(* SpecPages a page that hosts one of the two controllers, GlobocorpGenie  *)
(*           under the shipped and under other configurations.             *)
(* SpecUtils the utility functions validateMessage and getRandomDelay      *)
(*           called on their own with drawn inputs.                        *)
(*                                                                         *)
(* Strings are tuples of one-character strings, so that trim and length    *)
(* are computed.  A Date is [type |-> "Date", ms |-> n]; its JSON image is *)
(* the ISO string [type |-> "string", ms |-> n].                           *)
(***************************************************************************)
EXTENDS Integers, Sequences, FiniteSets, TLC

(***************************************************************************)
(* Bounds.  The configuration values are scaled down: the code reads them  *)
(* from the configuration object and the model keeps their order           *)
(* (PersistCap < messageLimit, delayMin <= delayMax).                      *)
(***************************************************************************)
\* config.ui.messageLimit (100 in the shipped configuration), scaled
messageLimit == 3
\* the literal 50 of saveMessageHistory's slice(-50), scaled
PersistCap == 2
\* config.ui.maxMessageLength / CONFIG.chat.maxMessageLength (500), scaled
maxMessageLength == 2
\* config.responses.delay.min / max (800 / 2000 ms), scaled to ticks
delayMin == 2
delayMax == 3
\* CONFIG.animation.messageDelay (50 ms), scaled to ticks
messageDelay == 1
\* Math.random() is k / RandomSteps for k in 0 .. RandomSteps - 1
RandomSteps == 2
\* the number of messages stamped (new Date()) in one run of the model
MaxNow == 6
\* the number of page reloads in one run of the model
MaxReloads == 1
\* submissions start while #chatWindow has at most this many children
MaxRendered == 6
\* the delay ranges of the direct calls lie within 0 .. MaxDelay
MaxDelay == 3
\* in the direct calls Math.random() is k / DrawSteps for k in 0 .. DrawSteps - 1
DrawSteps == 4
\* the number of times the holders of getState() snapshots edit its messages
MaxEdits == 1
\* the number of getState() calls in one run of the model
MaxSnapshots == 1

(***************************************************************************)
(* Strings                                                                 *)
(***************************************************************************)
IsSpace(c) == c = " "

RECURSIVE trimStart(_)
trimStart(s) ==
  IF s # <<>> /\ IsSpace(Head(s)) THEN trimStart(Tail(s)) ELSE s

RECURSIVE trimEnd(_)
trimEnd(s) ==
  IF s # <<>> /\ IsSpace(s[Len(s)]) THEN trimEnd(SubSeq(s, 1, Len(s) - 1)) ELSE s

\* trim removing the leading white space only: trimStart
trimLeading(s) == trimStart(s)

\* String.prototype.trim
trim(s) == trimEnd(trimStart(s))

\* the texts a user may have typed into the input field when a submission starts
\* a text of n characters
textOfLength(n) == [i \in 1 .. n |-> "x"]

Inputs ==
  { <<>>, <<" ">>, <<" ", "y", " ">>, textOfLength(maxMessageLength),
    textOfLength(maxMessageLength + 1) }

\* config.responses.replies
replies == << <<"R", "1">>, <<"R", "2">> >>

\* config.responses of the shipped config.js
shippedResponses ==
  [replies |-> replies, delay |-> [min |-> delayMin, max |-> delayMax]]

\* the config.responses a deployment may load: the shipped one, one with a
\* single reply and a delay range of one value, one with no reply, and one
\* whose delay range has min above max
Configs ==
  { shippedResponses,
    [replies |-> << <<"R", "3">> >>, delay |-> [min |-> delayMin, max |-> delayMin]],
    [replies |-> <<>>, delay |-> [min |-> delayMin, max |-> delayMax]],
    [replies |-> replies, delay |-> [min |-> delayMax, max |-> delayMin]] }

\* the value undefined, as a text
undefined == <<"undefined">>

\* config.messages.errorNetwork
errorNetwork == <<"E", "n">>

\* config.messages.errorEmpty, and the too-long text built by validateMessage
errorEmpty == <<"E", "e">>
errorTooLong == <<"E", "l">>

\* config.messages.processing
processingText == <<"P">>

\* Math.random(): the draws k, standing for k / RandomSteps in [0, 1)
RandomDraws == 0 .. (RandomSteps - 1)

\* Math.floor(Math.random() * n) for the draw k
floorRandomTimes(k, n) == (k * n) \div RandomSteps

\* the delay computed over the width max - min: without the + 1
randomDelayInOpen(min, max, num, den) ==
  ((num * (max - min)) \div den) + min

\* Math.floor(Math.random() * (max - min + 1)) + min, Math.random() being
\* num / den
randomDelayIn(min, max, num, den) ==
  ((num * (max - min + 1)) \div den) + min

(***************************************************************************)
(* Arrays                                                                  *)
(***************************************************************************)
\* Array.prototype.slice(-n) for n > 0
sliceLast(a, n) ==
  IF Len(a) <= n THEN a ELSE SubSeq(a, Len(a) - n + 1, Len(a))

\* the sequence a without the positions in S, order kept
removeAt(a, S) ==
  LET F[i \in 0 .. Len(a)] ==
        IF i = 0 THEN <<>>
        ELSE IF i \in S THEN F[i - 1] ELSE Append(F[i - 1], a[i])
  IN F[Len(a)]

\* the positions i at which flags[i] is true, in order
positionsOf(flags) ==
  LET F[i \in 0 .. Len(flags)] ==
        IF i = 0 THEN <<>>
        ELSE IF flags[i] THEN Append(F[i - 1], i) ELSE F[i - 1]
  IN F[Len(flags)]

(***************************************************************************)
(* JSON and localStorage                                                   *)
(***************************************************************************)
\* new Date() at clock value n
Date(n) == [type |-> "Date", ms |-> n]

\* a history entry { text, sender, timestamp }
Message(text, sender, timestamp) ==
  [text |-> text, sender |-> sender, timestamp |-> timestamp]

\* JSON.stringify of one entry: a Date becomes its ISO string, a string stays
stringifyEntry(m) ==
  [m EXCEPT !.timestamp = [type |-> "string", ms |-> m.timestamp.ms]]

\* JSON.stringify of an array of entries: the stored text
JSONstringify(a) ==
  [kind |-> "json", json |-> "array", items |-> [i \in 1 .. Len(a) |-> stringifyEntry(a[i])]]

\* localStorage.getItem on a key never written
NoItem == [kind |-> "absent", json |-> "-", items |-> <<>>]

\* a stored text that is the empty string, one that is not JSON, and JSON texts
\* that parse to something other than an array
EmptyText == [kind |-> "empty", json |-> "-", items |-> <<>>]
GarbageText == [kind |-> "garbage", json |-> "-", items |-> <<>>]
JsonNull == [kind |-> "json", json |-> "null", items |-> <<>>]
JsonObject == [kind |-> "json", json |-> "object", items |-> <<>>]

\* a JSON array whose element is not a message record (the number 7)
JsonNumbers ==
  [kind |-> "json", json |-> "array",
   items |-> << [text |-> <<"7">>, sender |-> "none", timestamp |-> [type |-> "none", ms |-> 0]] >>]

\* what the key may hold when the page is first opened
InitialStorage ==
  { NoItem, EmptyText, GarbageText, JsonNull, JsonObject, JsonNumbers, JSONstringify(<<>>) }

\* JSON.parse: [threw, value]; the value is an array or a non-array
JSONparse(stored) ==
  IF stored.kind # "json"
  THEN [threw |-> TRUE, value |-> [type |-> "undefined", items |-> <<>>]]
  ELSE [threw |-> FALSE, value |-> [type |-> stored.json, items |-> stored.items]]

\* the empty array literal []
EmptyArray == [type |-> "array", items |-> <<>>]

(***************************************************************************)
(* GlobocorpGenie (genie.js)                                               *)
(*                                                                         *)
(* The methods are operators on a record g of the controller's fields and  *)
(* what it touches: messageHistory, isProcessing, chatWindow (the child    *)
(* elements of #chatWindow), typingIndicator, messageInput, timers (the    *)
(* pending sleep() timers), storage (the localStorage key), now (the       *)
(* clock), and the fields describing the call in progress: threw (an       *)
(* exception is propagating), caught (the catch block of handleSendMessage *)
(* was entered), saves (the outcome of each setItem), alert (the text      *)
(* shown by showError) and input (the text the input held).                *)
(***************************************************************************)
VARIABLES
  messageHistory,        \* this.messageHistory: [type, items]
  isProcessing,          \* this.isProcessing
  chatWindow,            \* the children of this.elements.chatWindow
  typingIndicator,       \* this.typingIndicator is an element (TRUE) or null
  messageInput,          \* this.elements.messageInput.value
  timers,                \* pending sleep() timers: [left, userMessage]
  storage,               \* localStorage["genie-message-history"]
  now,                   \* the clock: the number of Dates taken so far
  enableMessageHistory,  \* config.features.enableMessageHistory
  responses,             \* config.responses: [replies, delay: [min, max]]
  pageMarkup,            \* the children #chatWindow has in the page's markup
  reloads,               \* page loads after the first
  restored,              \* messageHistory as the constructor left it
  appended,              \* the entries pushed since the constructor ran
  savedFrom,             \* [written, items]: the history at the last successful save
  last                   \* the last operation and what it did

genieVars ==
  << messageHistory, isProcessing, chatWindow, typingIndicator, messageInput,
     timers, storage, now, enableMessageHistory, responses, pageMarkup, reloads,
     restored, appended, savedFrom, last >>

\* the controller's fields as one record
Cur ==
  [messageHistory |-> messageHistory, isProcessing |-> isProcessing,
   chatWindow |-> chatWindow, typingIndicator |-> typingIndicator,
   messageInput |-> messageInput, timers |-> timers, storage |-> storage,
   now |-> now, enableMessageHistory |-> enableMessageHistory,
   appended |-> appended, savedFrom |-> savedFrom,
   threw |-> FALSE, caught |-> FALSE, saves |-> <<>>, alert |-> <<>>, input |-> <<>>]

\* a welcome element of the page's markup, and the markups considered
welcomeElement ==
  [classes |-> {"message", "genie-message", "welcome-message"}, text |-> <<"W">>]

\* sanitizeText: the text read back from an element's textContent, which is
\* the empty string when the value assigned was undefined
sanitizeText(text) == IF text = undefined THEN <<>> ELSE text

\* createMessageElement: div.message.<sender>-message holding the text
createMessageElement(text, sender) ==
  [classes |-> {"message", IF sender = "genie" THEN "genie-message" ELSE "user-message"},
   text |-> sanitizeText(text)]

\* querySelectorAll(".message:not(.typing-indicator)")
isChatMessage(el) ==
  "message" \in el.classes /\ "typing-indicator" \notin el.classes

\* localStorage.setItem: writeOK is whether the browser accepts the write
setItem(g, value, writeOK) ==
  IF writeOK
  THEN [g EXCEPT !.storage = value, !.saves = Append(@, "ok"),
                 !.savedFrom = [written |-> TRUE, items |-> g.messageHistory.items]]
  ELSE [g EXCEPT !.threw = TRUE, !.saves = Append(@, "threw")]

\* saveMessageHistory without its try/catch
saveMessageHistoryUncaught(g, writeOK) ==
  IF ~g.enableMessageHistory THEN g
  ELSE setItem(g, JSONstringify(sliceLast(g.messageHistory.items, PersistCap)), writeOK)

\* saveMessageHistory keeping the first PersistCap entries: slice(0, 50)
saveMessageHistoryFirst(g, writeOK) ==
  IF ~g.enableMessageHistory THEN g
  ELSE [setItem(g, JSONstringify(SubSeq(g.messageHistory.items, 1,
                     IF Len(g.messageHistory.items) < PersistCap
                     THEN Len(g.messageHistory.items) ELSE PersistCap)), writeOK)
        EXCEPT !.threw = FALSE]

\* saveMessageHistory: slice(-50), stringify, setItem; a throw is logged
saveMessageHistory(g, writeOK) ==
  IF ~g.enableMessageHistory THEN g
  ELSE [setItem(g, JSONstringify(sliceLast(g.messageHistory.items, PersistCap)), writeOK)
        EXCEPT !.threw = FALSE]

\* enforceMessageLimit keeping the first entries: slice(0, limit)
enforceMessageLimitFirst(g) ==
  LET messages == positionsOf([i \in 1 .. Len(g.chatWindow) |-> isChatMessage(g.chatWindow[i])])
      excess == Len(messages) - messageLimit
  IN IF Len(messages) > messageLimit
     THEN [g EXCEPT
             !.chatWindow = removeAt(@, { messages[i] : i \in { j \in 1 .. excess :
                               "welcome-message" \notin g.chatWindow[messages[j]].classes } }),
             !.messageHistory.items = SubSeq(@, 1, IF Len(@) < messageLimit THEN Len(@) ELSE messageLimit)]
     ELSE g

\* enforceMessageLimit: when the rendered messages exceed the limit, remove
\* the first excess of them that are not the welcome message, and trim the
\* history to its last limit entries
enforceMessageLimit(g) ==
  LET messages == positionsOf([i \in 1 .. Len(g.chatWindow) |-> isChatMessage(g.chatWindow[i])])
      excess == Len(messages) - messageLimit
  IN IF Len(messages) > messageLimit
     THEN [g EXCEPT
             !.chatWindow = removeAt(@, { messages[i] : i \in { j \in 1 .. excess :
                               "welcome-message" \notin g.chatWindow[messages[j]].classes } }),
             !.messageHistory.items = sliceLast(@, messageLimit)]
     ELSE g

\* addMessage: render, push to the history, enforce the limit, save.  The
\* push throws a TypeError when messageHistory is not an array.
addMessage(g, text, sender, writeOK) ==
  LET rendered == [g EXCEPT !.chatWindow = Append(@, createMessageElement(text, sender))]
      entry == Message(text, sender, Date(g.now))
      pushed == [rendered EXCEPT !.messageHistory.items = Append(@, entry),
                                 !.appended = Append(@, entry),
                                 !.now = @ + 1]
      limited == enforceMessageLimit(pushed)
  IN IF g.messageHistory.type # "array"
     THEN [rendered EXCEPT !.threw = TRUE]
     ELSE IF limited.enableMessageHistory
          THEN saveMessageHistory(limited, writeOK)
          ELSE limited

\* validateMessage without its check for the empty text
validateMessageLengthOnly(message) ==
  IF Len(message) > maxMessageLength THEN "tooLong" ELSE "valid"

\* validateMessage: the verdict on the trimmed text
validateMessage(message) ==
  IF message = <<>> THEN "empty"
  ELSE IF Len(message) > maxMessageLength THEN "tooLong"
  ELSE "valid"

\* the text validateMessage hands to showError
errorTextOf(verdict) ==
  IF verdict = "empty" THEN errorEmpty ELSE errorTooLong

\* showTypingIndicator: append div.message.genie-message.typing-indicator
showTypingIndicator(g) ==
  [g EXCEPT
     !.chatWindow = Append(@, [classes |-> {"message", "genie-message", "typing-indicator"},
                               text |-> processingText]),
     !.typingIndicator = TRUE]

\* hideTypingIndicator: remove the referenced element (the typing indicator
\* appended last) and null the reference
hideTypingIndicator(g) ==
  LET shown == positionsOf([i \in 1 .. Len(g.chatWindow) |->
                              "typing-indicator" \in g.chatWindow[i].classes])
  IN IF g.typingIndicator
     THEN [g EXCEPT !.chatWindow = IF shown = <<>> THEN @ ELSE removeAt(@, {shown[Len(shown)]}),
                    !.typingIndicator = FALSE]
     ELSE g

\* getRandomDelay for the draw k
getRandomDelay(k) ==
  randomDelayIn(responses.delay.min, responses.delay.max, k, RandomSteps)

\* generateResponse taking its other branch: the text returned when
\* config.development.mockResponses is off
generateResponsePlaceholder(k) == <<"I", "'", "m">>

\* generateResponse for the draw k (config.development.mockResponses is on):
\* the element of config.responses.replies at the drawn index, undefined when
\* the array has no such index
generateResponse(k) ==
  LET i == floorRandomTimes(k, Len(responses.replies)) + 1
  IN IF i \in DOMAIN responses.replies THEN responses.replies[i] ELSE undefined

\* processGenieResponse up to its await: show the indicator, start the timer
processGenieResponseStart(g, userMessage, k) ==
  [showTypingIndicator(g) EXCEPT
     !.timers = Append(@, [left |-> getRandomDelay(k), userMessage |-> userMessage])]

\* processGenieResponse after its await: hide the indicator, add the reply
processGenieResponseResume(g, userMessage, writeOK, k) ==
  addMessage(hideTypingIndicator(g), generateResponse(k), "genie", writeOK)

\* the catch block of handleSendMessage: log, add the network-error reply
sendCatch(g, writeOK) ==
  IF g.threw
  THEN addMessage([g EXCEPT !.threw = FALSE, !.caught = TRUE], errorNetwork, "genie", writeOK)
  ELSE g

\* handleSendMessage without its finally block
sendFinallyKeeps(g) == g

\* the finally block of handleSendMessage
sendFinally(g) == [g EXCEPT !.isProcessing = FALSE]

\* handleSendMessage without its in-flight check
mustIgnoreNever(g) == FALSE

\* the in-flight check of handleSendMessage
mustIgnore(g) == g.isProcessing

\* handleSendMessage making its in-flight check before it validates
handleSendMessageBusyFirst(g, raw, writeOK, k) ==
  LET messageText == trim(raw)
      verdict == validateMessage(messageText)
      typed == [g EXCEPT !.messageInput = raw, !.input = raw]
      started == [typed EXCEPT !.isProcessing = TRUE]
      user == addMessage(started, messageText, "user", writeOK)
  IN IF mustIgnore(g) THEN typed
     ELSE IF verdict # "valid" THEN [typed EXCEPT !.alert = errorTextOf(verdict)]
     ELSE IF user.threw THEN sendFinally(sendCatch(user, writeOK))
     ELSE processGenieResponseStart([user EXCEPT !.messageInput = <<>>], messageText, k)

\* handleSendMessage up to the await of sleep(), with the input holding raw
handleSendMessage(g, raw, writeOK, k) ==
  LET messageText == trim(raw)
      verdict == validateMessage(messageText)
      typed == [g EXCEPT !.messageInput = raw, !.input = raw]
      started == [typed EXCEPT !.isProcessing = TRUE]
      user == addMessage(started, messageText, "user", writeOK)
  IN IF verdict # "valid" THEN [typed EXCEPT !.alert = errorTextOf(verdict)]
     ELSE IF mustIgnore(g) THEN typed
     ELSE IF user.threw THEN sendFinally(sendCatch(user, writeOK))
     ELSE processGenieResponseStart([user EXCEPT !.messageInput = <<>>], messageText, k)

\* handleSendMessage from the moment its sleep() timer fires
resumeSendMessage(g, userMessage, writeOK, k) ==
  sendFinally(sendCatch(processGenieResponseResume(g, userMessage, writeOK, k), writeOK))

\* loadMessageHistory that parses and forgets to assign the result
loadMessageHistorySkips(g, readOK) == g

\* loadMessageHistory without its check of the enableMessageHistory feature
loadMessageHistoryAlways(g, readOK) ==
  LET parsed == JSONparse(g.storage)
  IN IF ~readOK THEN g
     ELSE IF g.storage.kind \in {"absent", "empty"} THEN g
     ELSE IF parsed.threw THEN g
     ELSE [g EXCEPT !.messageHistory = parsed.value]

\* loadMessageHistory: parse the stored text into messageHistory; readOK is
\* whether localStorage.getItem returns rather than throws
loadMessageHistory(g, readOK) ==
  LET parsed == JSONparse(g.storage)
  IN IF ~g.enableMessageHistory THEN g
     ELSE IF ~readOK THEN g
     ELSE IF g.storage.kind \in {"absent", "empty"} THEN g
     ELSE IF parsed.threw THEN g
     ELSE [g EXCEPT !.messageHistory = parsed.value]

\* the constructor and init(): fresh fields, then loadMessageHistory
construct(stored, markup, enabled, clock, saved, readOK) ==
  loadMessageHistory(
    [messageHistory |-> EmptyArray, isProcessing |-> FALSE, chatWindow |-> markup,
     typingIndicator |-> FALSE, messageInput |-> <<>>, timers |-> <<>>,
     storage |-> stored, now |-> clock, enableMessageHistory |-> enabled,
     appended |-> <<>>, savedFrom |-> saved,
     threw |-> FALSE, caught |-> FALSE, saves |-> <<>>, alert |-> <<>>, input |-> <<>>],
    readOK)

\* the fields of g become the next state
Install(g) ==
  /\ messageHistory' = g.messageHistory
  /\ isProcessing' = g.isProcessing
  /\ chatWindow' = g.chatWindow
  /\ typingIndicator' = g.typingIndicator
  /\ messageInput' = g.messageInput
  /\ timers' = g.timers
  /\ storage' = g.storage
  /\ now' = g.now
  /\ appended' = g.appended
  /\ savedFrom' = g.savedFrom

\* the fields of g are the current state
Holds(g) ==
  /\ messageHistory = g.messageHistory
  /\ isProcessing = g.isProcessing
  /\ chatWindow = g.chatWindow
  /\ typingIndicator = g.typingIndicator
  /\ messageInput = g.messageInput
  /\ timers = g.timers
  /\ storage = g.storage
  /\ now = g.now
  /\ appended = g.appended
  /\ savedFrom = g.savedFrom

\* what an operation leaves behind for inspection
Outcome(op, g, busy, read) ==
  [op |-> op, busy |-> busy, alert |-> g.alert, saves |-> g.saves, threw |-> g.threw,
   read |-> read, input |-> g.input, caught |-> g.caught]

(***************************************************************************)
(* GenieChat (app.js)                                                      *)
(***************************************************************************)
VARIABLES
  messages,         \* this.state.messages
  messageCount,     \* this.state.messageCount
  isTyping,         \* this.state.isTyping
  isFirstMessage,   \* this.state.isFirstMessage
  chatContainer,    \* the children of this.elements.chatContainer
  chatInput,        \* this.elements.messageInput.value
  inputDisabled,    \* messageInput.disabled and sendButton.disabled
  typingShown,      \* the typing indicator is displayed
  chatTimers,       \* pending wait() timers: [left, at, message]
  chatNow,          \* the clock: the number of Dates taken so far
  snapshot,         \* the object the last getState() call returned
  chatLast          \* the last operation and what it did

chatVars ==
  << messages, messageCount, isTyping, isFirstMessage, chatContainer, chatInput,
     inputDisabled, typingShown, chatTimers, chatNow, snapshot, chatLast >>

(***************************************************************************)
(* The utility functions called on their own (window.GenieUtils)           *)
(***************************************************************************)
VARIABLES
  call              \* the last direct call: its function, arguments and result

vars == << genieVars, chatVars, call >>

\* a direct call: the function, the text (validateMessage) or the range and
\* the draw (getRandomDelay) it is given, and the verdict or the delay it
\* returns once done
Call(fn, text, min, max, draw) ==
  [fn |-> fn, text |-> text, min |-> min, max |-> max, draw |-> draw,
   done |-> FALSE, verdict |-> "none", delay |-> -1]

\* no direct call was made
NoCall == [Call("none", <<>>, 0, 0, 0) EXCEPT !.done = TRUE]

\* the strings handed to Utils.validateMessage: every text of spaces and
\* letters up to two characters longer than maxMessageLength
Strings ==
  UNION { [1 .. n -> {" ", "x"}] : n \in 0 .. (maxMessageLength + 2) }

\* the delay ranges min <= max within 0 .. MaxDelay
DelayRanges ==
  { r \in [min : 0 .. MaxDelay, max : 0 .. MaxDelay] : r.min <= r.max }

\* the direct calls not yet made
UtilsCalls ==
  { Call("validateMessage", s, 0, 0, 0) : s \in Strings }
    \cup { Call("getRandomDelay", <<>>, r.min, r.max, d) :
             r \in DelayRanges, d \in 0 .. (DrawSteps - 1) }

(***************************************************************************)
(* GlobocorpGenie: the state after construction, and the operations        *)
(***************************************************************************)
NotSaved == [written |-> FALSE, items |-> <<>>]

\* the pages the controller is constructed on: every stored value on a page
\* without a welcome element and with the history feature on, a page with a
\* welcome element, and two pages with the history feature off whose key
\* holds an array and an object
InitialPages ==
  { [stored |-> s, markup |-> <<>>, enabled |-> TRUE] : s \in InitialStorage }
    \cup { [stored |-> NoItem, markup |-> <<welcomeElement>>, enabled |-> TRUE],
           [stored |-> JsonNumbers, markup |-> <<>>, enabled |-> FALSE],
           [stored |-> JsonObject, markup |-> <<>>, enabled |-> FALSE] }

GenieInit ==
  \E page \in InitialPages, readOK \in BOOLEAN :
    LET g == construct(page.stored, page.markup, page.enabled, 0, NotSaved, readOK)
    IN /\ Holds(g)
       /\ enableMessageHistory = page.enabled
       /\ responses = shippedResponses
       /\ pageMarkup = page.markup
       /\ reloads = 0
       /\ restored = g.messageHistory
       /\ last = Outcome("constructor", g, FALSE, readOK)

\* the position of the timer that fires next: the earliest one that is due
dueTimer(ts) ==
  LET due == positionsOf([i \in 1 .. Len(ts) |-> ts[i].left = 0])
  IN IF due = <<>> THEN 0 ELSE due[1]

\* one tick of time passes for every pending timer
tickAll(ts) == [i \in 1 .. Len(ts) |-> [ts[i] EXCEPT !.left = @ - 1]]

\* A submission: the input holds raw and handleSendMessage is called (form
\* submit, or Ctrl/Cmd+Enter); it runs to its await or to its return.
Submit(raw, writeOK, k) ==
  /\ now + 2 * (Len(timers) + 1) <= MaxNow
  /\ Len(chatWindow) <= MaxRendered
  /\ LET g == handleSendMessage(Cur, raw, writeOK, k)
     IN /\ Install(g)
        /\ last' = Outcome("handleSendMessage", g, isProcessing, TRUE)
  /\ UNCHANGED << enableMessageHistory, responses, pageMarkup, reloads, restored, chatVars,
                  call >>

\* Time passes while a reply is pending.
Tick ==
  /\ timers # <<>>
  /\ dueTimer(timers) = 0
  /\ timers' = tickAll(timers)
  /\ last' = [op |-> "tick", busy |-> isProcessing, alert |-> <<>>, saves |-> <<>>,
              threw |-> FALSE, read |-> TRUE, input |-> <<>>, caught |-> FALSE]
  /\ UNCHANGED << messageHistory, isProcessing, chatWindow, typingIndicator, messageInput,
                  storage, now, enableMessageHistory, responses, pageMarkup, reloads,
                  restored, appended, savedFrom, chatVars, call >>

\* The sleep() timer fires: handleSendMessage resumes and runs to its end.
TimerFires(writeOK, k) ==
  /\ dueTimer(timers) # 0
  /\ LET t == timers[dueTimer(timers)]
         g == resumeSendMessage([Cur EXCEPT !.timers = removeAt(@, {dueTimer(timers)})],
                                t.userMessage, writeOK, k)
     IN /\ Install(g)
        /\ last' = Outcome("timerFires", g, isProcessing, TRUE)
  /\ UNCHANGED << enableMessageHistory, responses, pageMarkup, reloads, restored, chatVars,
                  call >>

\* The page is closed and opened again: pending timers die with the page, a
\* new controller is constructed over what localStorage holds.
Reload(readOK) ==
  /\ reloads < MaxReloads
  /\ LET g == construct(storage, pageMarkup, enableMessageHistory, now, savedFrom, readOK)
     IN /\ Install(g)
        /\ restored' = g.messageHistory
        /\ last' = Outcome("constructor", g, FALSE, readOK)
  /\ reloads' = reloads + 1
  /\ UNCHANGED << enableMessageHistory, responses, pageMarkup, chatVars, call >>

(***************************************************************************)
(* GenieChat: helpers                                                      *)
(***************************************************************************)
\* Utils.validateMessage rejecting a text of exactly maxMessageLength: >=
UtilsValidateMessageAtLeast(message) ==
  IF message = <<>> \/ trim(message) = <<>> THEN "empty"
  ELSE IF Len(message) >= maxMessageLength THEN "tooLong"
  ELSE "valid"

\* Utils.validateMessage
UtilsValidateMessage(message) ==
  IF message = <<>> \/ trim(message) = <<>> THEN "empty"
  ELSE IF Len(message) > maxMessageLength THEN "tooLong"
  ELSE "valid"

\* CONFIG.chat.responses
chatResponses == << <<"C", "1">>, <<"C", "2">> >>

\* Utils.getRandomDelay and Utils.getRandomResponse for the draw k
UtilsGetRandomDelay(k) ==
  randomDelayIn(delayMin, delayMax, k, RandomSteps)

UtilsGetRandomResponse(k) ==
  chatResponses[floorRandomTimes(k, Len(chatResponses)) + 1]

\* CONFIG.chat.errorMessages.network
chatErrorNetwork == <<"C", "n">>

\* the welcome element of the page and of clearChat
chatWelcome == [classes |-> {"welcome-message"}, text |-> <<"W">>]

\* GenieChat.createMessageElement
chatMessageElement(message, type) ==
  [classes |-> {"message", IF type = "genie" THEN "genie-message" ELSE "user-message"},
   text |-> message]

\* clearWelcomeMessage: remove the first .welcome-message element, if any
clearWelcomeMessage(dom) ==
  LET found == positionsOf([i \in 1 .. Len(dom) |-> "welcome-message" \in dom[i].classes])
  IN IF found = <<>> THEN dom ELSE removeAt(dom, {found[1]})

\* the submissions whose genie message is still to be pushed
awaitingReply(ts) ==
  Len(positionsOf([i \in 1 .. Len(ts) |-> ts[i].at \in {"userScroll", "typing"}]))

\* the in-flight check of GenieChat.handleSendMessage
chatMustIgnore == isTyping

ChatOutcome(op, accepted, alert) ==
  [op |-> op, accepted |-> accepted, alert |-> alert,
   typing |-> isTyping, pending |-> awaitingReply(chatTimers)]

\* getState was not called: there is no snapshot
NoSnapshot ==
  [taken |-> FALSE, count |-> 0, aliased |-> FALSE, edits |-> 0, messages |-> <<>>,
   messageCount |-> 0, isTyping |-> FALSE, isFirstMessage |-> TRUE]

\* getState: { ...this.state }, a new object with the four properties of
\* this.state.  The spread copies the property values, so the snapshot's
\* messages is the array object state.messages refers to (aliased) and the
\* three other properties are copies.  (count and edits count the calls and
\* the edits made through snapshots so far.)
getState ==
  [taken |-> TRUE, count |-> snapshot.count + 1, aliased |-> TRUE,
   edits |-> snapshot.edits, messages |-> messages,
   messageCount |-> messageCount, isTyping |-> isTyping,
   isFirstMessage |-> isFirstMessage]

\* the snapshot once the array state.messages refers to holds array: an
\* aliased snapshot shows the same array object
throughAlias(snap, array) ==
  IF snap.aliased THEN [snap EXCEPT !.messages = array] ELSE snap

\* the entry the holder of a snapshot pushes to its messages
foreignEntry == [type |-> "user", content |-> <<"z">>, timestamp |-> Date(0)]

(***************************************************************************)
(* GenieChat: the state after construction, and the operations             *)
(***************************************************************************)
ChatInit ==
  /\ messages = <<>>
  /\ messageCount = 0
  /\ isTyping = FALSE
  /\ isFirstMessage = TRUE
  /\ chatContainer \in { <<>>, <<chatWelcome>> }
  /\ chatInput = <<>>
  /\ inputDisabled = FALSE
  /\ typingShown = FALSE
  /\ chatTimers = <<>>
  /\ chatNow = 0
  /\ snapshot = NoSnapshot
  /\ chatLast = [op |-> "constructor", accepted |-> FALSE, alert |-> <<>>,
                 typing |-> FALSE, pending |-> 0]

\* handleSendMessage is called with the input holding raw; it runs to the
\* await inside addUserMessage (scrollToBottom's wait) or to its return.  A
\* disabled input keeps the value it has.
ChatSubmit(raw) ==
  /\ inputDisabled => raw = chatInput
  /\ chatNow + awaitingReply(chatTimers) + 2 <= MaxNow
  /\ chatInput' = raw
  /\ LET message == trim(raw)
         verdict == UtilsValidateMessage(message)
     IN IF chatMustIgnore
        THEN /\ chatLast' = ChatOutcome("handleSendMessage", FALSE, <<>>)
             /\ UNCHANGED << messages, messageCount, isFirstMessage, chatContainer,
                             inputDisabled, chatTimers, chatNow, snapshot >>
        ELSE IF verdict # "valid"
        THEN /\ chatLast' = ChatOutcome("handleSendMessage", FALSE, errorTextOf(verdict))
             /\ UNCHANGED << messages, messageCount, isFirstMessage, chatContainer,
                             inputDisabled, chatTimers, chatNow, snapshot >>
        ELSE /\ inputDisabled' = TRUE
             /\ isFirstMessage' = FALSE
             /\ chatContainer' =
                  Append(IF isFirstMessage THEN clearWelcomeMessage(chatContainer)
                         ELSE chatContainer,
                         chatMessageElement(message, "user"))
             /\ messageCount' = messageCount + 1
             /\ messages' = Append(messages, [type |-> "user", content |-> message,
                                              timestamp |-> Date(chatNow)])
             /\ snapshot' = throughAlias(snapshot, messages')
             /\ chatNow' = chatNow + 1
             /\ chatTimers' = Append(chatTimers, [left |-> messageDelay, at |-> "userScroll",
                                                  message |-> message])
             /\ chatLast' = ChatOutcome("handleSendMessage", TRUE, <<>>)
  /\ UNCHANGED << isTyping, typingShown, genieVars, call >>

\* Time passes while a wait() is pending.
ChatTick ==
  /\ chatTimers # <<>>
  /\ dueTimer(chatTimers) = 0
  /\ chatTimers' = tickAll(chatTimers)
  /\ chatLast' = ChatOutcome("tick", FALSE, <<>>)
  /\ UNCHANGED << messages, messageCount, isTyping, isFirstMessage, chatContainer,
                  chatInput, inputDisabled, typingShown, chatNow, snapshot, genieVars,
                  call >>

\* The wait of addUserMessage's scrollToBottom ends and Utils.scrollToBottom
\* is called; ok is whether it returns rather than throws.  When it returns
\* the input is cleared and simulateGenieResponse runs to its wait(delay).
\* When it throws the exception leaves addUserMessage: the catch block of
\* handleSendMessage shows the network error and the finally block enables
\* the input.
UserScrolled(k, ok) ==
  /\ dueTimer(chatTimers) # 0
  /\ chatTimers[dueTimer(chatTimers)].at = "userScroll"
  /\ IF ok
     THEN /\ chatInput' = <<>>
          /\ typingShown' = TRUE
          /\ isTyping' = TRUE
          /\ chatTimers' = Append(removeAt(chatTimers, {dueTimer(chatTimers)}),
                                  [left |-> UtilsGetRandomDelay(k), at |-> "typing",
                                   message |-> chatTimers[dueTimer(chatTimers)].message])
          /\ chatLast' = ChatOutcome("userScrolled", FALSE, <<>>)
          /\ UNCHANGED inputDisabled
     ELSE /\ inputDisabled' = FALSE
          /\ chatTimers' = removeAt(chatTimers, {dueTimer(chatTimers)})
          /\ chatLast' = ChatOutcome("userScrolled", FALSE, chatErrorNetwork)
          /\ UNCHANGED << chatInput, typingShown, isTyping >>
  /\ UNCHANGED << messages, messageCount, isFirstMessage, chatContainer, chatNow, snapshot,
                  genieVars, call >>

\* The wait(delay) of simulateGenieResponse ends: the indicator is hidden and
\* Utils.getRandomResponse is called; ok is whether the step returns rather
\* than throws.  When it returns addGenieMessage runs to the wait of its
\* scrollToBottom.  When it throws the exception leaves simulateGenieResponse
\* before its last statement: the catch block of handleSendMessage shows the
\* network error and the finally block enables the input.
TypingDone(k, ok) ==
  /\ dueTimer(chatTimers) # 0
  /\ chatTimers[dueTimer(chatTimers)].at = "typing"
  /\ typingShown' = FALSE
  /\ IF ok
     THEN /\ chatContainer' = Append(chatContainer,
                                     chatMessageElement(UtilsGetRandomResponse(k), "genie"))
          /\ messages' = Append(messages, [type |-> "genie",
                                           content |-> UtilsGetRandomResponse(k),
                                           timestamp |-> Date(chatNow)])
          /\ snapshot' = throughAlias(snapshot, messages')
          /\ chatNow' = chatNow + 1
          /\ chatTimers' = Append(removeAt(chatTimers, {dueTimer(chatTimers)}),
                                  [left |-> messageDelay, at |-> "genieScroll",
                                   message |-> chatTimers[dueTimer(chatTimers)].message])
          /\ chatLast' = ChatOutcome("typingDone", FALSE, <<>>)
          /\ UNCHANGED inputDisabled
     ELSE /\ inputDisabled' = FALSE
          /\ chatTimers' = removeAt(chatTimers, {dueTimer(chatTimers)})
          /\ chatLast' = ChatOutcome("typingDone", FALSE, chatErrorNetwork)
          /\ UNCHANGED << chatContainer, messages, snapshot, chatNow >>
  /\ UNCHANGED << messageCount, isTyping, isFirstMessage, chatInput, genieVars, call >>

\* The wait of addGenieMessage's scrollToBottom ends and Utils.scrollToBottom
\* is called; ok is whether it returns rather than throws.  When it returns
\* isTyping is reset; when it throws the exception leaves
\* simulateGenieResponse before isTyping is reset and the catch block shows
\* the network error.  The finally block of handleSendMessage enables the
\* input in both cases.
GenieScrolled(ok) ==
  /\ dueTimer(chatTimers) # 0
  /\ chatTimers[dueTimer(chatTimers)].at = "genieScroll"
  /\ isTyping' = IF ok THEN FALSE ELSE isTyping
  /\ inputDisabled' = FALSE
  /\ chatTimers' = removeAt(chatTimers, {dueTimer(chatTimers)})
  /\ chatLast' = ChatOutcome("genieScrolled", FALSE, IF ok THEN <<>> ELSE chatErrorNetwork)
  /\ UNCHANGED << messages, messageCount, isFirstMessage, chatContainer, chatInput,
                  typingShown, chatNow, snapshot, genieVars, call >>

\* clearChat without its reset of messageCount
ClearChatKeepsCount ==
  /\ chatContainer' = <<chatWelcome>>
  /\ messages' = <<>>
  /\ snapshot' = [snapshot EXCEPT !.aliased = FALSE]
  /\ isFirstMessage' = TRUE
  /\ chatLast' = ChatOutcome("clearChat", FALSE, <<>>)
  /\ UNCHANGED << messageCount, isTyping, chatInput, inputDisabled, typingShown, chatTimers,
                  chatNow, genieVars, call >>

\* clearChat: state.messages is assigned a new array, so a snapshot taken
\* before keeps the array it has and is no longer aliased
ClearChat ==
  /\ chatContainer' = <<chatWelcome>>
  /\ messages' = <<>>
  /\ snapshot' = [snapshot EXCEPT !.aliased = FALSE]
  /\ messageCount' = 0
  /\ isFirstMessage' = TRUE
  /\ chatLast' = ChatOutcome("clearChat", FALSE, <<>>)
  /\ UNCHANGED << isTyping, chatInput, inputDisabled, typingShown, chatTimers, chatNow,
                  genieVars, call >>

\* genieChat.getState() is called and the caller keeps the object returned
GetState ==
  /\ snapshot.count < MaxSnapshots
  /\ snapshot' = getState
  /\ chatLast' = ChatOutcome("getState", FALSE, <<>>)
  /\ UNCHANGED << messages, messageCount, isTyping, isFirstMessage, chatContainer,
                  chatInput, inputDisabled, typingShown, chatTimers, chatNow, genieVars,
                  call >>

\* The holder of the snapshot calls snapshot.messages.push(entry): the array
\* the snapshot refers to grows, and it is state.messages when aliased.
SnapshotPush ==
  /\ snapshot.taken
  /\ snapshot.edits < MaxEdits
  /\ snapshot' = [snapshot EXCEPT !.messages = Append(@, foreignEntry), !.edits = @ + 1]
  /\ messages' = IF snapshot.aliased THEN snapshot'.messages ELSE messages
  /\ chatLast' = ChatOutcome("snapshotPush", FALSE, <<>>)
  /\ UNCHANGED << messageCount, isTyping, isFirstMessage, chatContainer, chatInput,
                  inputDisabled, typingShown, chatTimers, chatNow, genieVars, call >>

\* The holder of the snapshot calls snapshot.messages.pop().
SnapshotPop ==
  /\ snapshot.taken
  /\ snapshot.edits < MaxEdits
  /\ snapshot.messages # <<>>
  /\ snapshot' = [snapshot EXCEPT !.messages = SubSeq(@, 1, Len(@) - 1), !.edits = @ + 1]
  /\ messages' = IF snapshot.aliased THEN snapshot'.messages ELSE messages
  /\ chatLast' = ChatOutcome("snapshotPop", FALSE, <<>>)
  /\ UNCHANGED << messageCount, isTyping, isFirstMessage, chatContainer, chatInput,
                  inputDisabled, typingShown, chatTimers, chatNow, genieVars, call >>

(***************************************************************************)
(* The specifications of the two controllers                               *)
(***************************************************************************)
\* GenieChat before any page uses it
ChatIdle ==
  /\ ChatInit
  /\ chatContainer = <<chatWelcome>>

\* GlobocorpGenie before any page uses it
GenieIdle ==
  /\ Holds(construct(NoItem, <<>>, TRUE, 0, NotSaved, TRUE))
  /\ enableMessageHistory = TRUE
  /\ responses = shippedResponses
  /\ pageMarkup = <<>>
  /\ reloads = 0
  /\ restored = EmptyArray
  /\ last = Outcome("constructor", construct(NoItem, <<>>, TRUE, 0, NotSaved, TRUE), FALSE, TRUE)

Init == GenieInit /\ ChatIdle /\ call = NoCall

Next ==
  \/ \E raw \in Inputs, writeOK \in BOOLEAN, k \in RandomDraws : Submit(raw, writeOK, k)
  \/ Tick
  \/ \E writeOK \in BOOLEAN, k \in RandomDraws : TimerFires(writeOK, k)
  \/ \E readOK \in BOOLEAN : Reload(readOK)

Spec == Init /\ [][Next]_vars

InitChat == GenieIdle /\ ChatInit /\ call = NoCall

NextChat ==
  \/ \E raw \in Inputs : ChatSubmit(raw)
  \/ ChatTick
  \/ \E k \in RandomDraws, ok \in BOOLEAN : UserScrolled(k, ok)
  \/ \E k \in RandomDraws, ok \in BOOLEAN : TypingDone(k, ok)
  \/ \E ok \in BOOLEAN : GenieScrolled(ok)
  \/ ClearChat

SpecChat == InitChat /\ [][NextChat]_vars

(***************************************************************************)
(* GenieChat with a caller that takes snapshots with getState and edits    *)
(* the messages of the snapshot it holds; the DOM calls return             *)
(***************************************************************************)
\* the texts submitted here: an empty one and one of maxMessageLength characters
SnapshotInputs == { <<>>, textOfLength(maxMessageLength) }

NextSnapshot ==
  \/ \E raw \in SnapshotInputs : ChatSubmit(raw)
  \/ ChatTick
  \/ \E k \in RandomDraws : UserScrolled(k, TRUE)
  \/ \E k \in RandomDraws : TypingDone(k, TRUE)
  \/ GenieScrolled(TRUE)
  \/ ClearChat
  \/ GetState
  \/ SnapshotPush
  \/ SnapshotPop

SpecSnapshot == InitChat /\ [][NextSnapshot]_vars

(***************************************************************************)
(* A page hosts one of the two controllers, GlobocorpGenie under any of    *)
(* the configurations; the other controller stays as constructed.  The     *)
(* DOM calls of GenieChat return here.                                     *)
(***************************************************************************)
\* the pages GlobocorpGenie is constructed on here: a fresh page under every
\* configuration and, under the shipped one, a page whose stored history is
\* not an array and a page with the history feature off
ConfiguredPages ==
  { [stored |-> NoItem, markup |-> <<>>, enabled |-> TRUE, config |-> c] : c \in Configs }
    \cup { [stored |-> JsonObject, markup |-> <<>>, enabled |-> TRUE,
            config |-> shippedResponses],
           [stored |-> JsonNumbers, markup |-> <<>>, enabled |-> FALSE,
            config |-> shippedResponses] }

GenieInitConfigs ==
  \E page \in ConfiguredPages :
    LET g == construct(page.stored, page.markup, page.enabled, 0, NotSaved, TRUE)
    IN /\ Holds(g)
       /\ enableMessageHistory = page.enabled
       /\ responses = page.config
       /\ pageMarkup = page.markup
       /\ reloads = 0
       /\ restored = g.messageHistory
       /\ last = Outcome("constructor", g, FALSE, TRUE)

InitPages ==
  \/ GenieInitConfigs /\ ChatIdle /\ call = NoCall
  \/ InitChat

NextPages ==
  \/ \E raw \in Inputs, writeOK \in BOOLEAN, k \in RandomDraws :
       ChatIdle /\ Submit(raw, writeOK, k)
  \/ ChatIdle /\ Tick
  \/ \E writeOK \in BOOLEAN, k \in RandomDraws : ChatIdle /\ TimerFires(writeOK, k)
  \/ \E readOK \in BOOLEAN : ChatIdle /\ Reload(readOK)
  \/ \E raw \in Inputs : GenieIdle /\ ChatSubmit(raw)
  \/ GenieIdle /\ ChatTick
  \/ \E k \in RandomDraws : GenieIdle /\ UserScrolled(k, TRUE)
  \/ \E k \in RandomDraws : GenieIdle /\ TypingDone(k, TRUE)
  \/ GenieIdle /\ GenieScrolled(TRUE)
  \/ GenieIdle /\ ClearChat

SpecPages == InitPages /\ [][NextPages]_vars

(***************************************************************************)
(* The utility functions called on their own: the inputs are drawn, the    *)
(* call computes the output                                                *)
(***************************************************************************)
InitUtils == GenieIdle /\ ChatIdle /\ call \in UtilsCalls

\* Utils.validateMessage(call.text)
CallValidateMessage ==
  /\ call.fn = "validateMessage"
  /\ ~call.done
  /\ call' = [call EXCEPT !.done = TRUE, !.verdict = UtilsValidateMessage(call.text)]
  /\ UNCHANGED << genieVars, chatVars >>

\* getRandomDelay() over the range call.min .. call.max, when Math.random()
\* returns call.draw / DrawSteps
CallGetRandomDelay ==
  /\ call.fn = "getRandomDelay"
  /\ ~call.done
  /\ call' = [call EXCEPT !.done = TRUE,
                          !.delay = randomDelayIn(call.min, call.max, call.draw, DrawSteps)]
  /\ UNCHANGED << genieVars, chatVars >>

NextUtils ==
  \/ CallValidateMessage
  \/ CallGetRandomDelay

SpecUtils == InitUtils /\ [][NextUtils]_vars

(***************************************************************************)
(* Properties                                                              *)
(***************************************************************************)
\* the sender and text of each entry, in order
senderText(a) == [i \in 1 .. Len(a) |-> << a[i].sender, a[i].text >>]

\* the last operation was a handleSendMessage call that passed validation and
\* the in-flight check
AcceptedLast ==
  last.op = "handleSendMessage" /\ last.alert = <<>> /\ ~last.busy

\* C1: a GlobocorpGenie.handleSendMessage call made while isProcessing is true
\* appends nothing to messageHistory (nor to the session's appended entries or
\* the chat window), leaves isProcessing as it is and leaves storage as it is,
\* whatever the text and however much of the reply delay is left.
C1_BusySubmitRejected ==
  [][ (isProcessing /\ last'.op = "handleSendMessage")
        => /\ messageHistory' = messageHistory
           /\ appended' = appended
           /\ chatWindow' = chatWindow
           /\ isProcessing' = isProcessing
           /\ storage' = storage
           /\ timers' = timers ]_vars

\* a valid text was submitted at the very end of the pending delay and dropped
C1_Witness ==
  /\ last.op = "handleSendMessage"
  /\ last.busy
  /\ isProcessing
  /\ validateMessage(trim(messageInput)) = "valid"
  /\ Len(timers) = 1
  /\ timers[1].left = 0

\* C2: in GenieChat a handleSendMessage call that starts while an accepted
\* submission still awaits its genie message is not accepted: it appends no
\* user message and starts no timer.
C2_OneInFlight ==
  (chatLast.op = "handleSendMessage" /\ chatLast.pending > 0) => ~chatLast.accepted

\* C3: in the messages of the session every user message that has a successor
\* is followed by a genie message, never by another user message.
C3_UserThenGenie ==
  \A i \in 1 .. (Len(messages) - 1) :
    messages[i].type = "user" => messages[i + 1].type = "genie"

\* C4: after every addMessage the history holds at most messageLimit entries,
\* also in a session whose history was loaded from storage.
C4_HistoryWithinLimit ==
  (last.op \in {"handleSendMessage", "timerFires"} /\ messageHistory.type = "array")
    => Len(messageHistory.items) <= messageLimit

\* C5: in a session that started with an empty history, once more than
\* messageLimit entries have been added the history holds exactly messageLimit
\* entries: the last messageLimit entries added, in the order they were added.
C5_KeepsLastAdded ==
  (restored = EmptyArray /\ Len(appended) > messageLimit)
    => /\ messageHistory.type = "array"
       /\ Len(messageHistory.items) = messageLimit
       /\ \A i \in 1 .. messageLimit :
            messageHistory.items[i] = appended[Len(appended) - messageLimit + i]

\* two entries more than the limit were added to an initially empty history
C5_Witness ==
  /\ restored = EmptyArray
  /\ Len(appended) >= messageLimit + 2
  /\ last.op = "timerFires"

\* the texts of the configured replies
replySet == { replies[i] : i \in 1 .. Len(replies) }

\* a setItem of the last operation threw
WriteThrew == \E i \in 1 .. Len(last.saves) : last.saves[i] = "threw"

\* C6: an accepted submission (valid text, submitted while idle) has appended
\* its user message and waits for its timer; when the timer has fired the
\* controller is idle again and the last two entries appended are the user
\* message of the submission and one genie message.
C6_AcceptedAppendsTwo ==
  /\ AcceptedLast
       => /\ isProcessing
          /\ Len(timers) = 1
          /\ appended # <<>>
          /\ appended[Len(appended)].sender = "user"
          /\ appended[Len(appended)].text = timers[1].userMessage
  /\ last.op = "timerFires"
       => /\ ~isProcessing
          /\ Len(appended) >= 2
          /\ appended[Len(appended) - 1].sender = "user"
          /\ appended[Len(appended)].sender = "genie"

\* C7: when a storage write throws during an operation, the operation goes on
\* as if it had not: nothing propagates, storage keeps its value, exactly one
\* entry is appended and it ends the history, whose other entries are the
\* ones it held before; after the timer step that entry is a genie message
\* with a configured reply (not the network-error text) and isProcessing is
\* false; after the submit step it is the user message and the reply is
\* pending.
C7_WriteFailureSwallowed ==
  [][ (last'.op \in {"handleSendMessage", "timerFires"}
       /\ \E i \in 1 .. Len(last'.saves) : last'.saves[i] = "threw")
        => /\ ~last'.threw
           /\ storage' = storage
           /\ Len(appended') = Len(appended) + 1
           /\ messageHistory'.type = "array"
           /\ messageHistory'.items # <<>>
           /\ messageHistory'.items[Len(messageHistory'.items)] = appended'[Len(appended')]
           /\ \E dropped \in 0 .. Len(messageHistory.items) :
                SubSeq(messageHistory'.items, 1, Len(messageHistory'.items) - 1)
                  = SubSeq(messageHistory.items, dropped + 1, Len(messageHistory.items))
           /\ last'.op = "timerFires"
                => /\ isProcessing' = FALSE
                   /\ appended'[Len(appended')].sender = "genie"
                   /\ appended'[Len(appended')].text \in replySet
           /\ last'.op = "handleSendMessage"
                => /\ isProcessing' = TRUE
                   /\ appended'[Len(appended')].sender = "user"
                   /\ Len(timers') = 1 ]_vars

\* the write of the genie message threw and the submission completed
C7_Witness ==
  /\ last.op = "timerFires"
  /\ WriteThrew
  /\ ~isProcessing
  /\ messageHistory.items[Len(messageHistory.items)].sender = "genie"

\* the stored text is the serialization of a sequence of message records
WellFormed(stored) ==
  /\ stored.kind = "json"
  /\ stored.json = "array"
  /\ \A i \in 1 .. Len(stored.items) : stored.items[i].sender \in {"user", "genie"}

\* C8: the constructor's loadMessageHistory never throws, and when the stored
\* text is not the serialization of a sequence of message records the history
\* starts as the empty array.
C8_MalformedStartsEmpty ==
  (last.op = "constructor" /\ ~WellFormed(storage))
    => /\ ~last.threw
       /\ messageHistory = EmptyArray

\* C9: save then load is the identity on the sender/text sequence of the last
\* PersistCap entries: for the history M of every reachable state, loading
\* what a successful save of M stored gives the last min(|M|, PersistCap)
\* entries of M in order; and after every reload that read the key, the
\* history is that of the last successful save.
C9_RoundTrip ==
  /\ (enableMessageHistory /\ messageHistory.type = "array")
       => LET saved == saveMessageHistory(Cur, TRUE)
              loaded == construct(saved.storage, pageMarkup, TRUE, now, saved.savedFrom, TRUE)
              n == IF Len(messageHistory.items) < PersistCap
                   THEN Len(messageHistory.items) ELSE PersistCap
          IN /\ loaded.messageHistory.type = "array"
             /\ Len(loaded.messageHistory.items) = n
             /\ \A i \in 1 .. n :
                  LET m == messageHistory.items[Len(messageHistory.items) - n + i]
                  IN /\ loaded.messageHistory.items[i].sender = m.sender
                     /\ loaded.messageHistory.items[i].text = m.text
  /\ (last.op = "constructor" /\ last.read /\ savedFrom.written)
       => /\ messageHistory.type = "array"
          /\ senderText(messageHistory.items)
               = senderText(SubSeq(savedFrom.items,
                                   IF Len(savedFrom.items) <= PersistCap THEN 1
                                   ELSE Len(savedFrom.items) - PersistCap + 1,
                                   Len(savedFrom.items)))

\* a reload restored the last PersistCap entries of a longer saved history
C9_Witness ==
  /\ last.op = "constructor"
  /\ last.read
  /\ savedFrom.written
  /\ Len(savedFrom.items) > PersistCap
  /\ Len(messageHistory.items) = PersistCap

\* the outcome of the last setItem of the last operation was success
SavedLast ==
  /\ last.op \in {"handleSendMessage", "timerFires"}
  /\ last.saves # <<>>
  /\ last.saves[Len(last.saves)] = "ok"

\* C10: after a successful save the key holds the serialization of exactly the
\* last min(length, PersistCap) entries of messageHistory, in order, and the
\* history is the one that was handed to the save.
C10_SaveStoresMostRecent ==
  SavedLast
    => LET items == messageHistory.items
           n == IF Len(items) < PersistCap THEN Len(items) ELSE PersistCap
       IN /\ storage.kind = "json"
          /\ storage.json = "array"
          /\ Len(storage.items) = n
          /\ \A i \in 1 .. n :
               /\ storage.items[i].text = items[Len(items) - n + i].text
               /\ storage.items[i].sender = items[Len(items) - n + i].sender
               /\ storage.items[i].timestamp.ms = items[Len(items) - n + i].timestamp.ms
          /\ savedFrom = [written |-> TRUE, items |-> items]

\* a save stored fewer entries than the history holds
C10_Witness ==
  /\ SavedLast
  /\ Len(messageHistory.items) > PersistCap
  /\ Len(storage.items) = PersistCap

\* C11: storage is not written when a submission is accepted (the step that
\* starts the reply delay leaves the key as it was), and a page reload that
\* interrupts a pending reply never restores a history whose last entry is a
\* user message.
C11_WrittenOnlyOnReply ==
  [][ /\ (last'.op = "handleSendMessage" /\ ~isProcessing /\ isProcessing')
           => storage' = storage
      /\ (isProcessing /\ last'.op = "constructor"
            /\ messageHistory'.type = "array" /\ messageHistory'.items # <<>>)
           => messageHistory'.items[Len(messageHistory'.items)].sender # "user" ]_vars

\* the text s between its first and its last character that is not white space
withoutOuterSpace(s) ==
  LET inner == { i \in 1 .. Len(s) : ~IsSpace(s[i]) }
      first == CHOOSE i \in inner : \A j \in inner : i <= j
      final == CHOOSE i \in inner : \A j \in inner : j <= i
  IN IF inner = {} THEN <<>> ELSE SubSeq(s, first, final)

\* C12: a submission made while idle of a text that is empty or all white
\* space changes nothing but the alert: in GlobocorpGenie the history, the
\* entries appended, the chat window, the timers and storage stay as they
\* were, isProcessing stays false, no save is attempted and the alert shows
\* the empty-message error; in GenieChat messages, messageCount, the
\* container and the timers stay as they were, isTyping stays false, the
\* input stays enabled and the error shown is the empty-message error.
C12_EmptyRejected ==
  [][ /\ (last'.op = "handleSendMessage" /\ ~isProcessing
            /\ withoutOuterSpace(last'.input) = <<>>)
           => /\ messageHistory' = messageHistory
              /\ appended' = appended
              /\ chatWindow' = chatWindow
              /\ timers' = timers
              /\ storage' = storage
              /\ savedFrom' = savedFrom
              /\ isProcessing' = FALSE
              /\ last'.saves = <<>>
              /\ ~last'.threw
              /\ last'.alert = errorEmpty
      /\ (chatLast'.op = "handleSendMessage" /\ ~isTyping
            /\ withoutOuterSpace(chatInput') = <<>>)
           => /\ messages' = messages
              /\ messageCount' = messageCount
              /\ chatContainer' = chatContainer
              /\ chatTimers' = chatTimers
              /\ isTyping' = FALSE
              /\ inputDisabled' = inputDisabled
              /\ ~chatLast'.accepted
              /\ chatLast'.alert = errorEmpty ]_vars

\* GenieChat, idle after a completed exchange, showed the empty-message error
\* for an input of white space only
C12_Witness ==
  /\ chatLast.op = "handleSendMessage"
  /\ chatLast.alert = errorEmpty
  /\ chatInput = <<" ">>
  /\ ~isTyping
  /\ chatTimers = <<>>
  /\ Len(messages) = 2

\* C13: a submission made while idle is rejected as too long exactly when the
\* text between its outer white space is longer than maxMessageLength.  A
\* rejected one shows the too-long error, appends nothing, starts no timer
\* and leaves the controller idle; a text of at most maxMessageLength
\* characters (and at least one) never gets the too-long error and is taken
\* up: its user message is rendered and, the history being an array,
\* appended, and the reply is pending.
C13_TooLongExactly ==
  [][ /\ (last'.op = "handleSendMessage" /\ ~isProcessing)
           => LET text == withoutOuterSpace(last'.input)
              IN IF Len(text) > maxMessageLength
                 THEN /\ last'.alert = errorTooLong
                      /\ messageHistory' = messageHistory
                      /\ appended' = appended
                      /\ chatWindow' = chatWindow
                      /\ timers' = timers
                      /\ storage' = storage
                      /\ isProcessing' = FALSE
                 ELSE /\ last'.alert # errorTooLong
                      /\ text # <<>>
                           => /\ last'.alert = <<>>
                              /\ \E i \in 1 .. Len(chatWindow') :
                                   chatWindow'[i] = createMessageElement(text, "user")
                              /\ messageHistory.type = "array"
                                   => /\ Len(appended') = Len(appended) + 1
                                      /\ appended'[Len(appended')].sender = "user"
                                      /\ appended'[Len(appended')].text = text
                                      /\ isProcessing'
                                      /\ Len(timers') = 1
      /\ (chatLast'.op = "handleSendMessage" /\ ~isTyping)
           => LET text == withoutOuterSpace(chatInput')
              IN IF Len(text) > maxMessageLength
                 THEN /\ chatLast'.alert = errorTooLong
                      /\ ~chatLast'.accepted
                      /\ messages' = messages
                      /\ messageCount' = messageCount
                      /\ chatContainer' = chatContainer
                      /\ chatTimers' = chatTimers
                      /\ isTyping' = FALSE
                      /\ inputDisabled' = inputDisabled
                 ELSE /\ chatLast'.alert # errorTooLong
                      /\ text # <<>>
                           => /\ chatLast'.accepted
                              /\ Len(messages') = Len(messages) + 1
                              /\ messages'[Len(messages')].type = "user"
                              /\ messages'[Len(messages')].content = text ]_vars

\* GlobocorpGenie, idle again after an exchange whose user text has exactly
\* maxMessageLength characters, rejected a text one character longer
C13_Witness ==
  /\ last.op = "handleSendMessage"
  /\ last.alert = errorTooLong
  /\ ~isProcessing
  /\ Len(withoutOuterSpace(messageInput)) = maxMessageLength + 1
  /\ \E i \in 1 .. Len(appended) :
       appended[i].sender = "user" /\ Len(appended[i].text) = maxMessageLength

\* C14: Utils.validateMessage(s) reports the empty error when s is empty or
\* all white space, the too-long error when the text between the outer white
\* space of s is longer than maxMessageLength, and valid otherwise.
C14_JudgesTrimmed ==
  (call.fn = "validateMessage" /\ call.done)
    => call.verdict =
         IF withoutOuterSpace(call.text) = <<>> THEN "empty"
         ELSE IF Len(withoutOuterSpace(call.text)) > maxMessageLength THEN "tooLong"
         ELSE "valid"

\* C15: whenever a submission with input s appends a user message, the text
\* of that message is s without its leading and trailing white space: in
\* GlobocorpGenie the last entry of the history and of the entries appended,
\* and the userMessage of the pending reply; in GenieChat the last entry of
\* messages and the text rendered.
C15_AppendsTrimmed ==
  [][ /\ (last'.op = "handleSendMessage" /\ Len(appended') > Len(appended))
           => /\ appended'[Len(appended')].sender = "user"
              /\ appended'[Len(appended')].text = withoutOuterSpace(last'.input)
              /\ messageHistory'.items[Len(messageHistory'.items)] = appended'[Len(appended')]
              /\ timers'[Len(timers')].userMessage = withoutOuterSpace(last'.input)
      /\ (chatLast'.op = "handleSendMessage" /\ Len(messages') > Len(messages))
           => /\ messages'[Len(messages')].type = "user"
              /\ messages'[Len(messages')].content = withoutOuterSpace(chatInput')
              /\ chatContainer'[Len(chatContainer')]
                   = chatMessageElement(withoutOuterSpace(chatInput'), "user") ]_vars

\* GenieChat appended the user message "y" for an input padded with white
\* space on both sides
C15_Witness ==
  /\ chatLast.op = "handleSendMessage"
  /\ chatLast.accepted
  /\ chatInput = <<" ", "y", " ">>
  /\ messages # <<>>
  /\ messages[Len(messages)].content = <<"y">>

C17_DelayWithinRange ==
  (call.fn = "getRandomDelay" /\ call.done)
    => /\ call.delay \in call.min .. call.max
       /\ call.min = call.max => call.delay = call.min
       /\ \A d \in call.min .. call.max :
            \E draw \in 0 .. (DrawSteps - 1) :
              randomDelayIn(call.min, call.max, draw, DrawSteps) = d

\* the largest draw over the widest range returned the upper end of the range
C17_Witness ==
  /\ call.fn = "getRandomDelay"
  /\ call.done
  /\ call.min = 0
  /\ call.max = MaxDelay
  /\ call.draw = DrawSteps - 1
  /\ call.delay = MaxDelay

\* C18: GenieChat's messages never start with a genie message: a reply whose
\* user message was cleared away by clearChat is not appended to the cleared
\* state.
C18_ClearCancelsReply ==
  messages # <<>> => messages[1].type # "genie"

\* the configuration has no reply, or a delay range with min above max
Misconfigured ==
  responses.replies = <<>> \/ responses.delay.min > responses.delay.max

\* C19: under a configuration with an empty reply list or a delay range with
\* min above max GlobocorpGenie accepts no submission and appends no message:
\* the history and the chat window stay as the page load left them and no
\* reply is ever pending.
C19_MisconfiguredNeverStarts ==
  Misconfigured
    => /\ appended = <<>>
       /\ messageHistory = restored
       /\ chatWindow = pageMarkup
       /\ ~isProcessing
       /\ timers = <<>>

\* C21: the object returned by GenieChat.getState does not share its messages
\* with the controller: an edit of snapshot.messages (a push or a pop by the
\* holder) leaves state.messages as it was, and an append by the controller
\* (the user message of handleSendMessage, the genie message of the reply)
\* leaves the messages of a snapshot taken before as they were.
C21_SnapshotIsCopy ==
  [][ /\ chatLast'.op \in {"snapshotPush", "snapshotPop"} => messages' = messages
      /\ (snapshot.taken /\ chatLast'.op \in {"handleSendMessage", "typingDone"})
           => snapshot'.messages = snapshot.messages ]_vars

\* C20: in GlobocorpGenie isProcessing is true exactly while a reply delay is
\* pending, and at most one is: it is false after the constructor, false
\* after the resumed handleSendMessage has run to its end, false after a
\* call made while idle that was rejected by validation or that ended with
\* an exception, and true at every tick of a pending delay.
C20_ProcessingWhilePending ==
  /\ isProcessing <=> timers # <<>>
  /\ Len(timers) <= 1
  /\ last.op \in {"constructor", "timerFires"} => ~isProcessing
  /\ (last.op = "handleSendMessage" /\ ~last.busy /\ (last.alert # <<>> \/ last.threw))
       => ~isProcessing
  /\ last.op = "tick" => isProcessing
  /\ AcceptedLast /\ ~last.threw => isProcessing

\* a call that ended with an exception (the push on a restored history that
\* is not an array) left isProcessing false
C20_Witness ==
  /\ last.op = "handleSendMessage"
  /\ last.threw
  /\ ~last.busy
  /\ ~isProcessing
  /\ messageHistory.type # "array"

\* C22: in GlobocorpGenie.handleSendMessage validation comes before the
\* in-flight check: a call made while isProcessing is true shows the
\* empty-message error for a text that is empty or all white space and the
\* too-long error for a text longer than maxMessageLength, and shows nothing
\* for a valid text; in all three cases the history, the entries appended,
\* the chat window, the pending timer, storage and isProcessing stay as they
\* were.
C22_ValidityBeforeInFlight ==
  [][ (isProcessing /\ last'.op = "handleSendMessage")
        => /\ last'.alert =
                IF withoutOuterSpace(last'.input) = <<>> THEN errorEmpty
                ELSE IF Len(withoutOuterSpace(last'.input)) > maxMessageLength
                     THEN errorTooLong
                     ELSE <<>>
           /\ ~last'.threw
           /\ last'.saves = <<>>
           /\ messageHistory' = messageHistory
           /\ appended' = appended
           /\ chatWindow' = chatWindow
           /\ timers' = timers
           /\ storage' = storage
           /\ isProcessing' ]_vars

\* a too-long text submitted while a reply was pending got the too-long error
C22_Witness ==
  /\ last.op = "handleSendMessage"
  /\ last.busy
  /\ isProcessing
  /\ timers # <<>>
  /\ last.alert = errorTooLong
  /\ Len(withoutOuterSpace(last.input)) > maxMessageLength

\* C23: GenieChat is never wedged in the typing state: whenever no
\* handleSendMessage call is in progress (none waits on a timer), also after
\* a call whose genie response step threw, isTyping is false, so that the
\* next valid submission is accepted.
C23_NeverWedged ==
  chatTimers = <<>> => ~isTyping

\* C24: when an exception is thrown while GlobocorpGenie processes an
\* accepted submission (the catch block of handleSendMessage is entered),
\* the call ends with isProcessing false and with a history whose last entry
\* is one genie message carrying config.messages.errorNetwork, preceded by
\* the user message of the submission.
C24_ThrowAppendsErrorReply ==
  (last.op \in {"handleSendMessage", "timerFires"} /\ last.caught)
    => /\ ~isProcessing
       /\ messageHistory.type = "array"
       /\ Len(messageHistory.items) >= 2
       /\ messageHistory.items[Len(messageHistory.items)].sender = "genie"
       /\ messageHistory.items[Len(messageHistory.items)].text = errorNetwork
       /\ messageHistory.items[Len(messageHistory.items) - 1].sender = "user"
       /\ Len(appended) >= 2
       /\ appended[Len(appended)].text = errorNetwork
       /\ appended[Len(appended) - 1].sender = "user"

\* C25: in every reachable state of GenieChat, under every interleaving of
\* handleSendMessage calls, their timer steps and clearChat, messageCount is
\* the number of entries of messages whose type is "user".
C25_CountIsUserEntries ==
  messageCount = Cardinality({ i \in 1 .. Len(messages) : messages[i].type = "user" })

\* after a clearChat during a pending reply and a further exchange the
\* messages are genie, user, genie and messageCount is 1
C25_Witness ==
  /\ Len(messages) = 3
  /\ messages[1].type = "genie"
  /\ messages[2].type = "user"
  /\ messages[3].type = "genie"
  /\ messageCount = 1
  /\ chatTimers = <<>>

\* the chat messages rendered in the window, the typing indicator excluded
renderedMessages ==
  LET shown == positionsOf([i \in 1 .. Len(chatWindow) |-> isChatMessage(chatWindow[i])])
  IN [i \in 1 .. Len(shown) |-> chatWindow[shown[i]]]

\* the last operation ran addMessage: an accepted submission or a timer step
AddedLast == AcceptedLast \/ last.op = "timerFires"

\* C26: on a page whose chat window holds no message element at startup,
\* after every addMessage the rendered chat messages are the entries of
\* messageHistory, one element per entry and in the same order, each showing
\* the sender and the text of its entry; also in a session whose history
\* was restored from storage.
C26_RenderedMatchesHistory ==
  (AddedLast /\ pageMarkup = <<>>)
    => /\ Len(renderedMessages) = Len(messageHistory.items)
       /\ \A i \in 1 .. Len(renderedMessages) :
            renderedMessages[i]
              = createMessageElement(messageHistory.items[i].text,
                                     messageHistory.items[i].sender)

\* C27: with the enableMessageHistory feature off GlobocorpGenie neither
\* reads nor writes storage: after every page load the history is the empty
\* array whatever the key holds, no operation attempts a save, no save has
\* ever succeeded, and every step leaves the stored value as it was.
C27_FeatureOffNoStorage ==
  /\ [](~enableMessageHistory
          => /\ restored = EmptyArray
             /\ last.op = "constructor" => messageHistory = EmptyArray
             /\ last.saves = <<>>
             /\ ~savedFrom.written)
  /\ [][ ~enableMessageHistory => storage' = storage ]_vars

\* with the feature off an exchange completed on a page whose key holds a
\* JSON object, which is still there
C27_Witness ==
  /\ ~enableMessageHistory
  /\ storage = JsonObject
  /\ last.op = "timerFires"
  /\ messageHistory.type = "array"
  /\ Len(messageHistory.items) = 2

====
